---------------------------- MODULE Spec2Model ----------------------------
(***************************************************************************)
(* The chord recognition engine of audio-seperator-service:                *)
(* ChordDetector.detect_chords and ChordDetector._match_chord              *)
(* (src/audio-seperator-service/chord_detector.py).                        *)
(*                                                                         *)
(* Units.  Times and the track duration are whole samples at the 22050 Hz  *)
(* the audio is loaded at (0.5 s = 11025 samples), so the frame times      *)
(* i * hop_length / sr are exact.  A similarity score is a whole number of *)
(* ticks of 1/10000.  round(x, 3) is a real conversion here: it takes      *)
(* samples to milliseconds and ticks to thousandths.                       *)
(*                                                                         *)
(* Scores are computed in exact arithmetic.  The 1e-8 added to the         *)
(* denominators of the code keeps a computed score strictly below the      *)
(* exact cosine, by far less than one tick, and makes the score of a       *)
(* vector of norm 0 equal to 0; rounding errors of the floating point      *)
(* operations (below 1e-15) are not modelled.                              *)
(***************************************************************************)
EXTENDS Integers, Sequences, FiniteSets

\* Bounds of the model.
MaxFrames == 4
MaxNotes == 2
MaxEnergy == 2

\* Program constants.
SR == 22050
DefaultMinConfidence == 3000
DefaultFrameDuration == 500
NumPitchClasses == 12

\* The resolution of a score: ten ticks to a thousandth.
ScoreScale == 10 * 1000

\* Python's None, and a local no assignment has bound yet: as a name, as a number.
None == "None"
Unbound == "Unbound"
NoNumber == 0 - 1

-----------------------------------------------------------------------------
(* The names of the twelve roots, C = 0 .. B = 11, and the triad on a root *)
(* r: energy 1 on r, on the third above it (4 semitones major, 3 minor)    *)
(* and on the fifth (7 semitones), 0 elsewhere.                            *)
NoteNames == << "C", "C#", "D", "D#", "E", "F", "F#", "G", "G#", "A", "A#", "B" >>

MajorName(r) == NoteNames[r + 1]
MinorName(r) == NoteNames[r + 1] \o "m"

TriadProfile(r, third) ==
  [p \in 1..NumPitchClasses |->
     IF (p - 1) \in {r, (r + third) % NumPitchClasses, (r + 7) % NumPitchClasses}
     THEN 1 ELSE 0]

(* CHORD_TEMPLATES with the minor third written into the major rows too:   *)
(* each major chord carries the profile of its minor.                      *)
CHORD_TEMPLATES_MinorThirds ==
  [k \in 1..(2 * NumPitchClasses) |->
     IF k <= NumPitchClasses
     THEN [name |-> MajorName(k - 1), profile |-> TriadProfile(k - 1, 3)]
     ELSE [name |-> MinorName(k - 1 - NumPitchClasses),
           profile |-> TriadProfile(k - 1 - NumPitchClasses, 3)]]

(* CHORD_TEMPLATES, in the order the dict literal lists them: the order    *)
(* its .items() iterates in.                                               *)
CHORD_TEMPLATES ==
  << [name |-> "C",   profile |-> <<1,0,0,0,1,0,0,1,0,0,0,0>>],
     [name |-> "C#",  profile |-> <<0,1,0,0,0,1,0,0,1,0,0,0>>],
     [name |-> "D",   profile |-> <<0,0,1,0,0,0,1,0,0,1,0,0>>],
     [name |-> "D#",  profile |-> <<0,0,0,1,0,0,0,1,0,0,1,0>>],
     [name |-> "E",   profile |-> <<0,0,0,0,1,0,0,0,1,0,0,1>>],
     [name |-> "F",   profile |-> <<1,0,0,0,0,1,0,0,0,1,0,0>>],
     [name |-> "F#",  profile |-> <<0,1,0,0,0,0,1,0,0,0,1,0>>],
     [name |-> "G",   profile |-> <<0,0,1,0,0,0,0,1,0,0,0,1>>],
     [name |-> "G#",  profile |-> <<1,0,0,1,0,0,0,0,1,0,0,0>>],
     [name |-> "A",   profile |-> <<0,1,0,0,1,0,0,0,0,1,0,0>>],
     [name |-> "A#",  profile |-> <<0,0,1,0,0,1,0,0,0,0,1,0>>],
     [name |-> "B",   profile |-> <<0,0,0,1,0,0,1,0,0,0,0,1>>],
     [name |-> "Cm",  profile |-> <<1,0,0,1,0,0,0,1,0,0,0,0>>],
     [name |-> "C#m", profile |-> <<0,1,0,0,1,0,0,0,1,0,0,0>>],
     [name |-> "Dm",  profile |-> <<0,0,1,0,0,1,0,0,0,1,0,0>>],
     [name |-> "D#m", profile |-> <<0,0,0,1,0,0,1,0,0,0,1,0>>],
     [name |-> "Em",  profile |-> <<0,0,0,0,1,0,0,1,0,0,0,1>>],
     [name |-> "Fm",  profile |-> <<1,0,0,0,0,1,0,0,1,0,0,0>>],
     [name |-> "F#m", profile |-> <<0,1,0,0,0,0,1,0,0,1,0,0>>],
     [name |-> "Gm",  profile |-> <<0,0,1,0,0,0,0,1,0,0,1,0>>],
     [name |-> "G#m", profile |-> <<0,0,0,1,0,0,0,0,1,0,0,1>>],
     [name |-> "Am",  profile |-> <<1,0,0,0,1,0,0,0,0,1,0,0>>],
     [name |-> "A#m", profile |-> <<0,1,0,0,0,1,0,0,0,0,1,0>>],
     [name |-> "Bm",  profile |-> <<0,0,1,0,0,0,1,0,0,0,0,1>>] >>

NumTemplates == Len(CHORD_TEMPLATES)

TemplateNames == { CHORD_TEMPLATES[k].name : k \in 1..NumTemplates }

PitchClasses == 1..NumPitchClasses

-----------------------------------------------------------------------------
(* Arithmetic helpers: np.sum, np.dot and np.linalg.norm on 12-vectors.    *)

RECURSIVE SumUpTo(_, _)
SumUpTo(v, n) == IF n = 0 THEN 0 ELSE v[n] + SumUpTo(v, n - 1)

VecSum(v) == SumUpTo(v, Len(v))

Dot(a, b) == VecSum([p \in 1..Len(a) |-> a[p] * b[p]])

\* The square of np.linalg.norm(v).
NormSq(v) == Dot(v, v)

\* The largest k in lo..hi with k * k <= n (lo * lo <= n is given).
RECURSIVE ISqrtIn(_, _, _)
ISqrtIn(n, lo, hi) ==
  IF lo = hi THEN lo
  ELSE LET mid == (lo + hi + 1) \div 2
       IN IF mid * mid <= n THEN ISqrtIn(n, mid, hi) ELSE ISqrtIn(n, lo, mid - 1)

ISqrt(n) == ISqrtIn(n, 0, ScoreScale)

(* x / (np.sum(x) + 1e-8): the vector as whole numerators over one common  *)
(* denominator.  A vector of sum 0 is all zero and stays all zero, over    *)
(* the denominator 1e-8, which den = 1 stands for.                         *)
Normalize(x) == [num |-> x, den |-> IF VecSum(x) = 0 THEN 1 ELSE VecSum(x)]

\* A vector handed to _match_chord as it is.
Raw(x) == [num |-> x, den |-> 1]

(* The cosine similarity of line 163, in ticks.  The two denominators      *)
(* cancel between np.dot and the norms, so the exact cosine is             *)
(* S / sqrt(Qc * Qt) for the numerators; what the code computes lies       *)
(* strictly below it (the 1e-8), so the score is the largest whole number  *)
(* of ticks strictly below the exact cosine, and 0 when the dot product    *)
(* is 0.                                                                   *)
Score(chroma_vec, template_array) ==
  LET S   == Dot(chroma_vec.num, template_array.num)
      den == NormSq(chroma_vec.num) * NormSq(template_array.num)
      A   == ScoreScale * S * S
      q1  == A \div den
      B   == ScoreScale * (A % den)
      F   == q1 * ScoreScale + B \div den
  IN IF S = 0 THEN 0
     ELSE IF B % den = 0 THEN ISqrt(F - 1) ELSE ISqrt(F)

\* Lines 159-160: the template as a float array over its sum.
TemplateArray(k) == Normalize(CHORD_TEMPLATES[k].profile)

\* Lines 154-155 with a best score every score beats.
MatchInitBelowZero == [chord |-> "N", score |-> 0 - 1]

\* Lines 154-155.
MatchInit == [chord |-> "N", score |-> 0]

\* Lines 167-169 with < at line 167: a template replaces the best so far
\* when it scores lower.
MatchUpdateOnLower(best, chord_name, score) ==
  IF score < best.score THEN [chord |-> chord_name, score |-> score] ELSE best

\* Lines 167-169 with >= at line 167: the last of the best templates wins.
MatchUpdateOnTie(best, chord_name, score) ==
  IF score >= best.score THEN [chord |-> chord_name, score |-> score] ELSE best

\* Lines 167-169: the template replaces the best so far.
MatchUpdate(best, chord_name, score) ==
  IF score > best.score THEN [chord |-> chord_name, score |-> score] ELSE best

\* One iteration of the loop of lines 157-169, over template k.
MatchIter(best, chroma_vec, k) ==
  MatchUpdate(best, CHORD_TEMPLATES[k].name, Score(chroma_vec, TemplateArray(k)))

RECURSIVE MatchFrom(_, _, _)
MatchFrom(best, chroma_vec, k) ==
  IF k > NumTemplates THEN best
  ELSE MatchFrom(MatchIter(best, chroma_vec, k), chroma_vec, k + 1)

\* _match_chord: the (best_chord, best_score) it returns.
match_chord(chroma_vec) == MatchFrom(MatchInit, chroma_vec, 1)


-----------------------------------------------------------------------------
(* The state: the ChordDetector instance, one detect_chords call on it     *)
(* with its arguments, locals and result, one _match_chord call with its   *)
(* argument and locals, and the detect_chords calls that the requests      *)
(* app.py serves side by side make on the one instance.                    *)
VARIABLES
  pc,               \* where the call stands
  min_confidence,   \* self.min_confidence, in ticks
  frame_duration,   \* the frame_duration argument, in milliseconds
  y,                \* the loaded signal: its length in samples
  duration,         \* librosa.get_duration(y, sr), in samples
  hop_length,       \* int(sr * frame_duration), in samples
  n_frames,         \* chroma.shape[1]
  chroma,           \* the columns of chroma the loop has read so far
  i,                \* the loop index: the number of frames processed
  chord,            \* locals of the loop
  confidence,
  prev_chord,
  chord_start_time,
  chords,
  fault,            \* the exception a collaborator raised, if one did
  result,           \* what detect_chords returned
  chroma_vector,    \* _match_chord: its argument
  tk,               \* _match_chord: the number of templates iterated
  best_chord,       \* _match_chord: locals
  best_score,
  call,             \* per request: where its detect_chords call stands
  call_locals       \* the loop's locals, per place that holds them

vars == << pc, min_confidence, frame_duration, y, duration, hop_length,
           n_frames, chroma, i, chord, confidence, prev_chord,
           chord_start_time, chords, fault, result,
           chroma_vector, tk, best_chord, best_score, call, call_locals >>

callVars == << min_confidence, frame_duration, y, duration, hop_length,
               n_frames, chroma, i, chord, confidence, prev_chord,
               chord_start_time, chords, fault, result >>

matchVars == << chroma_vector, tk, best_chord, best_score >>

concVars == << call, call_locals >>

-----------------------------------------------------------------------------
(* The inputs.                                                             *)

\* Thresholds a ChordDetector is built with: none, the default, a strict one.
MinConfidenceChoices == {0, DefaultMinConfidence, 8700}

\* The frame_duration argument: the default 0.5 s, and 0.25 s.
FrameDurationChoices == {DefaultFrameDuration, 250}

\* Line 74: int(sr * frame_duration).
HopLength(fd) == (SR * fd) \div 1000

\* Line 85: librosa.frames_to_time(i, sr, hop_length), in samples.
FrameTime(k, hop) == k * hop

(* The signals: whole numbers of hops.  The chroma extractor is librosa's; *)
(* of it the model keeps that it yields one column per hop of signal, the  *)
(* last one starting in the final hop or at the very end of the signal,    *)
(* and none for an empty signal.                                           *)
SignalLengths(hop) == { k * hop : k \in 0..MaxFrames }

FrameCounts(len, hop) ==
  { n \in 0..MaxFrames :
      \/ n = 0 /\ len = 0
      \/ n >= 1 /\ len > 0 /\ FrameTime(n - 1, hop) <= len /\ len <= FrameTime(n, hop) }

(* The chroma columns a frame can hold: silence; C major and G major       *)
(* chords with energy on C# beside them, scoring 0.8998, 0.7998 (C) and    *)
(* 0.8504, 0.8998 (G); the bare A minor triad, scoring 0.9999.             *)
Silence == <<0,0,0,0,0,0,0,0,0,0,0,0>>
FrameC90 == <<25,21,0,0,25,0,0,25,0,0,0,0>>
FrameC80 == <<10,13,0,0,10,0,0,10,0,0,0,0>>
FrameG85 == <<0,15,14,0,0,0,0,14,0,0,0,14>>
FrameG90 == <<0,21,25,0,0,0,0,25,0,0,0,25>>
FrameAm == <<1,0,0,0,1,0,0,0,0,1,0,0>>

ChromaInputs == {Silence, FrameC90, FrameC80, FrameG85, FrameG90, FrameAm}

\* Lines 96-102 for each column: normalise, then match.
FrameMatch == [x \in ChromaInputs |-> match_chord(Normalize(x))]

\* Exceptions the collaborators (librosa, numpy) raise: all are Exceptions.
Faults == {"NoBackendError", "ParameterError", "MemoryError"}

ExceptionClasses == Faults \cup {"UnboundLocalError"}

-----------------------------------------------------------------------------
(* detect_chords.                                                          *)

\* round(confidence, 3): ticks to thousandths.
Round3Conf(c) == (c + 5) \div (ScoreScale \div 1000)

\* round(seconds, 3): samples to milliseconds (no sample count lies on a half).
Round3Time(t) == (2000 * t + SR) \div (2 * SR)

\* Lines 109-114 and 120-125: the dict appended to chords.
Segment(start, name, conf, length) ==
  [time |-> start, chord |-> name,
   confidence |-> Round3Conf(conf), duration |-> Round3Time(length)]

\* Line 105 with the comparison the wrong way round.
AboveThresholdReversed(conf, minc) == conf <= minc

\* Line 105.
AboveThreshold(conf, minc) == conf >= minc

\* Line 107 without the merge: every qualifying frame counts as a change.
ChordChangedAlways(name, prev) == TRUE

\* Line 107.
ChordChanged(name, prev) == name # prev

(* Lines 102-116 with line 112 recording the confidence the closed segment *)
(* had before the arriving frame was matched.                              *)
LoopBodyOwnConfidence(st, time, m, minc) ==
  LET matched == [st EXCEPT !.chord = m.chord, !.confidence = m.score]
  IN IF AboveThreshold(m.score, minc) /\ ChordChanged(m.chord, st.prev_chord)
     THEN [matched EXCEPT
             !.chords = IF st.prev_chord # None
                        THEN Append(st.chords,
                                    Segment(st.chord_start_time, st.prev_chord,
                                            st.confidence,
                                            time - st.chord_start_time))
                        ELSE st.chords,
             !.chord_start_time = time,
             !.prev_chord = m.chord]
     ELSE matched

(* Lines 102-116 without line 115: the start time is never moved on.       *)
LoopBodyStaleStart(st, time, m, minc) ==
  LET matched == [st EXCEPT !.chord = m.chord, !.confidence = m.score]
  IN IF AboveThreshold(m.score, minc) /\ ChordChanged(m.chord, st.prev_chord)
     THEN [matched EXCEPT
             !.chords = IF st.prev_chord # None
                        THEN Append(st.chords,
                                    Segment(st.chord_start_time, st.prev_chord,
                                            m.score, time - st.chord_start_time))
                        ELSE st.chords,
             !.prev_chord = m.chord]
     ELSE matched

(* Lines 102-116 with line 116 outside the test of line 105: every frame,  *)
(* qualifying or not, becomes the previous chord.                          *)
LoopBodyPrevAlways(st, time, m, minc) ==
  LET matched == [st EXCEPT !.chord = m.chord, !.confidence = m.score]
  IN IF AboveThreshold(m.score, minc) /\ ChordChanged(m.chord, st.prev_chord)
     THEN [matched EXCEPT
             !.chords = IF st.prev_chord # None
                        THEN Append(st.chords,
                                    Segment(st.chord_start_time, st.prev_chord,
                                            m.score, time - st.chord_start_time))
                        ELSE st.chords,
             !.chord_start_time = time,
             !.prev_chord = m.chord]
     ELSE [matched EXCEPT !.prev_chord = m.chord]

(* Lines 102-116: one iteration of the loop, on the locals                 *)
(* st = [chord, confidence, prev_chord, chord_start_time, chords], for the *)
(* frame at `time` that _match_chord answered m for.                       *)
LoopBody(st, time, m, minc) ==
  LET matched == [st EXCEPT !.chord = m.chord, !.confidence = m.score]
  IN IF AboveThreshold(m.score, minc) /\ ChordChanged(m.chord, st.prev_chord)
     THEN [matched EXCEPT
             !.chords = IF st.prev_chord # None
                        THEN Append(st.chords,
                                    Segment(st.chord_start_time, st.prev_chord,
                                            m.score, time - st.chord_start_time))
                        ELSE st.chords,
             !.chord_start_time = time,
             !.prev_chord = m.chord]
     ELSE matched

\* Line 119 without the test: the final segment is always appended.
FinalActiveAlways(st) == TRUE

\* Line 119.
FinalActive(st) == st.prev_chord # None

\* Lines 120-125 with line 124 taking the whole track as the duration.
FinalChordsWholeTrack(st, dur) ==
  Append(st.chords,
         Segment(st.chord_start_time, st.prev_chord, st.confidence, dur))

\* Lines 120-125.
FinalChords(st, dur) ==
  Append(st.chords,
         Segment(st.chord_start_time, st.prev_chord, st.confidence,
                 dur - st.chord_start_time))

\* Lines 129-134.
SuccessResult(cs, dur) ==
  [success |-> TRUE, chords |-> cs, duration |-> dur, sample_rate |-> SR]

\* Line 136: except Exception.
Caught(e) == e \in ExceptionClasses

\* Lines 138-142 with line 141 returning the segments accumulated so far.
FailureResultPartial(e, cs) == [success |-> FALSE, error |-> e, chords |-> cs]

\* Lines 138-142.
FailureResult(e, cs) == [success |-> FALSE, error |-> e, chords |-> << >>]

(* The requests served side by side, each calling detect_chords on the     *)
(* module's one chord_detector (app.py, lines 20 and 109).                 *)
Calls == {1, 2}

\* A request that has not called detect_chords, or whose call has returned.
IdleCall ==
  [pc |-> "idle", duration |-> NoNumber, n_frames |-> NoNumber,
   chroma |-> << >>, i |-> NoNumber, fault |-> None, result |-> None]

\* The loop's locals before lines 84-92 bind them.
BlankLocals ==
  [chord |-> Unbound, confidence |-> NoNumber, prev_chord |-> Unbound,
   chord_start_time |-> NoNumber, chords |-> << >>]

Locals ==
  [chord |-> chord, confidence |-> confidence, prev_chord |-> prev_chord,
   chord_start_time |-> chord_start_time, chords |-> chords]

\* An exception e leaves the try block: the handler returns, or e propagates.
Handle(e) ==
  IF Caught(e)
  THEN pc' = "done" /\ result' = FailureResult(e, chords)
  ELSE pc' = "raised" /\ result' = result

Init ==
  /\ pc = "load"
  /\ min_confidence \in MinConfidenceChoices
  /\ frame_duration \in FrameDurationChoices
  /\ y = NoNumber /\ duration = NoNumber
  /\ hop_length = NoNumber /\ n_frames = NoNumber
  /\ chroma = << >> /\ i = NoNumber
  /\ chord = Unbound /\ confidence = NoNumber
  /\ prev_chord = Unbound /\ chord_start_time = NoNumber /\ chords = << >>
  /\ fault = None /\ result = None
  /\ chroma_vector = None /\ tk = 0
  /\ best_chord = MatchInit.chord /\ best_score = MatchInit.score
  /\ call = [c \in Calls |-> IdleCall]
  /\ call_locals = [c \in Calls |-> BlankLocals]

\* Lines 68-69: librosa.load and librosa.get_duration.
Load(len) ==
  /\ pc = "load"
  /\ y' = len /\ duration' = len
  /\ pc' = "chroma"
  /\ UNCHANGED << min_confidence, frame_duration, hop_length, n_frames, chroma,
                  i, chord, confidence, prev_chord, chord_start_time, chords,
                  fault, result >>
  /\ UNCHANGED matchVars
  /\ UNCHANGED concVars

\* Lines 74-92: the chromagram, the frame times and the loop's locals.
ExtractChroma(n) ==
  /\ pc = "chroma"
  /\ n \in FrameCounts(y, HopLength(frame_duration))
  /\ hop_length' = HopLength(frame_duration)
  /\ n_frames' = n
  /\ chords' = << >> /\ prev_chord' = None /\ chord_start_time' = 0
  /\ i' = 0
  /\ pc' = "loop"
  /\ UNCHANGED << min_confidence, frame_duration, y, duration, chroma, chord,
                  confidence, fault, result >>
  /\ UNCHANGED matchVars
  /\ UNCHANGED concVars

\* Lines 94-116: the iteration for frame i, whose chroma column is x.
LoopStep(x) ==
  /\ pc = "loop" /\ i < n_frames
  /\ LET st == LoopBody(Locals, FrameTime(i, hop_length), FrameMatch[x],
                        min_confidence)
     IN /\ chord' = st.chord /\ confidence' = st.confidence
        /\ prev_chord' = st.prev_chord
        /\ chord_start_time' = st.chord_start_time
        /\ chords' = st.chords
  /\ chroma' = Append(chroma, x)
  /\ i' = i + 1
  /\ UNCHANGED << pc, min_confidence, frame_duration, y, duration, hop_length,
                  n_frames, fault, result >>
  /\ UNCHANGED matchVars
  /\ UNCHANGED concVars

(* Lines 118-134: the end of the stream.  Reading confidence when no frame *)
(* bound it raises UnboundLocalError inside the try block.                 *)
Finish ==
  /\ pc = "loop" /\ i = n_frames
  /\ IF FinalActive(Locals)
     THEN IF confidence = NoNumber
          THEN Handle("UnboundLocalError") /\ chords' = chords
          ELSE /\ chords' = FinalChords(Locals, duration)
               /\ result' = SuccessResult(chords', duration)
               /\ pc' = "done"
     ELSE /\ chords' = chords
          /\ result' = SuccessResult(chords, duration)
          /\ pc' = "done"
  /\ UNCHANGED << min_confidence, frame_duration, y, duration, hop_length,
                  n_frames, chroma, i, chord, confidence, prev_chord,
                  chord_start_time, fault >>
  /\ UNCHANGED matchVars
  /\ UNCHANGED concVars

\* A collaborator raises e: loading, extracting the chroma, or in the loop.
Fail(e) ==
  /\ pc \in {"load", "chroma", "loop"}
  /\ fault' = e
  /\ Handle(e)
  /\ UNCHANGED << min_confidence, frame_duration, y, duration, hop_length,
                  n_frames, chroma, i, chord, confidence, prev_chord,
                  chord_start_time, chords >>
  /\ UNCHANGED matchVars
  /\ UNCHANGED concVars

Next ==
  \/ \E len \in SignalLengths(HopLength(frame_duration)) : Load(len)
  \/ \E n \in 0..MaxFrames : ExtractChroma(n)
  \/ \E x \in ChromaInputs : LoopStep(x)
  \/ Finish
  \/ \E e \in Faults : Fail(e)

Spec == Init /\ [][Next]_vars

-----------------------------------------------------------------------------
(* _match_chord on its own, one template of the loop of lines 157-169 at a *)
(* time.                                                                   *)

\* Vectors with energy 1..MaxEnergy on at most MaxNotes pitch classes.
BoundedVectors ==
  UNION { { [p \in PitchClasses |-> IF p \in S THEN f[p] ELSE 0] :
              f \in [S -> 1..MaxEnergy] } :
          S \in { T \in SUBSET PitchClasses : Cardinality(T) <= MaxNotes } }

TemplateProfiles == { CHORD_TEMPLATES[k].profile : k \in 1..NumTemplates }

\* The arguments: a vector as it is, or as line 99 normalises it.
MatchInputs ==
  { Raw(x) : x \in BoundedVectors \cup TemplateProfiles } \cup
  { Normalize(x) : x \in BoundedVectors \cup TemplateProfiles }

InitMatch ==
  /\ pc = "match"
  /\ chroma_vector \in MatchInputs
  /\ tk = 0
  /\ best_chord = MatchInit.chord /\ best_score = MatchInit.score
  /\ min_confidence = DefaultMinConfidence
  /\ frame_duration = DefaultFrameDuration
  /\ y = NoNumber /\ duration = NoNumber
  /\ hop_length = NoNumber /\ n_frames = NoNumber
  /\ chroma = << >> /\ i = NoNumber
  /\ chord = Unbound /\ confidence = NoNumber
  /\ prev_chord = Unbound /\ chord_start_time = NoNumber /\ chords = << >>
  /\ fault = None /\ result = None
  /\ call = [c \in Calls |-> IdleCall]
  /\ call_locals = [c \in Calls |-> BlankLocals]

\* Lines 157-169 for the next template.
MatchStep ==
  /\ pc = "match" /\ tk < NumTemplates
  /\ LET best == MatchIter([chord |-> best_chord, score |-> best_score],
                           chroma_vector, tk + 1)
     IN best_chord' = best.chord /\ best_score' = best.score
  /\ tk' = tk + 1
  /\ UNCHANGED << pc, chroma_vector >>
  /\ UNCHANGED callVars
  /\ UNCHANGED concVars

\* Line 171.
MatchReturn ==
  /\ pc = "match" /\ tk = NumTemplates
  /\ pc' = "matched"
  /\ UNCHANGED matchVars
  /\ UNCHANGED concVars
  /\ UNCHANGED callVars

NextMatch == MatchStep \/ MatchReturn

SpecMatch == InitMatch /\ [][NextMatch]_vars

-----------------------------------------------------------------------------
(* detect_chords called by the requests of Calls on the one instance, the  *)
(* calls interleaved one loop iteration at a time.  Every request makes    *)
(* the call of app.py line 109, with the default frame_duration.           *)

\* The longest frame stream of a call here.
MaxConcFrames == 2

ConcHop == HopLength(DefaultFrameDuration)

ConcSignalLengths == { k * ConcHop : k \in 0..MaxConcFrames }

ConcFrameCounts(len) ==
  { n \in 0..MaxConcFrames :
      \/ n = 0 /\ len = 0
      \/ n >= 1 /\ len > 0 /\ FrameTime(n - 1, ConcHop) <= len
                /\ len <= FrameTime(n, ConcHop) }

ConcInputs == {Silence, FrameC90, FrameG85}

ConcFaults == {"MemoryError"}

(* Lines 84-92 and 102-103 with the names assigned as attributes of self:  *)
(* the loop's locals kept on the instance, which every call shares.        *)
LocalsOnInstance(c) == 1

(* Lines 84-92 and 102-103 assign plain names: locals of the invocation,   *)
(* held in the invocation's own frame.                                     *)
LocalsOf(c) == c

\* Lines 68-92: the signal is loaded, the chromagram taken, the locals bound.
ConcEnter(c, len, n) ==
  /\ pc = "serve" /\ call[c].pc = "idle"
  /\ n \in ConcFrameCounts(len)
  /\ call' = [call EXCEPT ![c] = [@ EXCEPT !.pc = "loop", !.duration = len,
                                           !.n_frames = n, !.i = 0]]
  /\ call_locals' = [call_locals EXCEPT ![LocalsOf(c)] =
                       [BlankLocals EXCEPT !.chords = << >>,
                                           !.prev_chord = None,
                                           !.chord_start_time = 0]]
  /\ UNCHANGED << pc, callVars, matchVars >>

\* Lines 94-116: the iteration of call c for its frame i, whose column is x.
ConcStep(c, x) ==
  /\ pc = "serve" /\ call[c].pc = "loop" /\ call[c].i < call[c].n_frames
  /\ call_locals' = [call_locals EXCEPT ![LocalsOf(c)] =
                       LoopBody(call_locals[LocalsOf(c)],
                                FrameTime(call[c].i, ConcHop),
                                FrameMatch[x], min_confidence)]
  /\ call' = [call EXCEPT ![c] = [@ EXCEPT !.chroma = Append(@, x),
                                           !.i = @ + 1]]
  /\ UNCHANGED << pc, callVars, matchVars >>

\* Lines 118-134, and 136-142 when the confidence read is not bound.
ConcFinish(c) ==
  /\ pc = "serve" /\ call[c].pc = "loop" /\ call[c].i = call[c].n_frames
  /\ LET st == call_locals[LocalsOf(c)]
     IN IF FinalActive(st)
        THEN IF st.confidence = NoNumber
             THEN /\ call' = [call EXCEPT ![c] =
                                [@ EXCEPT !.pc = "done",
                                          !.result = FailureResult(
                                             "UnboundLocalError", st.chords)]]
                  /\ call_locals' = call_locals
             ELSE /\ call_locals' = [call_locals EXCEPT ![LocalsOf(c)] =
                                       [st EXCEPT !.chords =
                                          FinalChords(st, call[c].duration)]]
                  /\ call' = [call EXCEPT ![c] =
                                [@ EXCEPT !.pc = "done",
                                          !.result = SuccessResult(
                                             FinalChords(st, call[c].duration),
                                             call[c].duration)]]
        ELSE /\ call' = [call EXCEPT ![c] =
                           [@ EXCEPT !.pc = "done",
                                     !.result = SuccessResult(st.chords,
                                                              call[c].duration)]]
             /\ call_locals' = call_locals
  /\ UNCHANGED << pc, callVars, matchVars >>

\* Lines 136-142: a collaborator raises e in call c; the call returns.
ConcFail(c, e) ==
  /\ pc = "serve" /\ call[c].pc \in {"idle", "loop"}
  /\ call' = [call EXCEPT ![c] =
                [@ EXCEPT !.pc = "done", !.fault = e,
                          !.result = FailureResult(
                             e, call_locals[LocalsOf(c)].chords)]]
  /\ UNCHANGED call_locals
  /\ UNCHANGED << pc, callVars, matchVars >>

(* app.py line 109 onwards: the handler has the result, the invocation's   *)
(* locals are gone, and the request's place is free for the next request.  *)
ConcReturn(c) ==
  /\ pc = "serve" /\ call[c].pc = "done"
  /\ call' = [call EXCEPT ![c] = IdleCall]
  /\ call_locals' = [call_locals EXCEPT ![LocalsOf(c)] = BlankLocals]
  /\ UNCHANGED << pc, callVars, matchVars >>

InitConc ==
  /\ pc = "serve"
  /\ min_confidence \in MinConfidenceChoices
  /\ frame_duration = DefaultFrameDuration
  /\ y = NoNumber /\ duration = NoNumber
  /\ hop_length = NoNumber /\ n_frames = NoNumber
  /\ chroma = << >> /\ i = NoNumber
  /\ chord = Unbound /\ confidence = NoNumber
  /\ prev_chord = Unbound /\ chord_start_time = NoNumber /\ chords = << >>
  /\ fault = None /\ result = None
  /\ chroma_vector = None /\ tk = 0
  /\ best_chord = MatchInit.chord /\ best_score = MatchInit.score
  /\ call = [c \in Calls |-> IdleCall]
  /\ call_locals = [c \in Calls |-> BlankLocals]

NextConc ==
  \E c \in Calls :
    \/ \E len \in ConcSignalLengths : \E n \in 0..MaxConcFrames :
         ConcEnter(c, len, n)
    \/ \E x \in ConcInputs : ConcStep(c, x)
    \/ ConcFinish(c)
    \/ \E e \in ConcFaults : ConcFail(c, e)
    \/ ConcReturn(c)

SpecConc == InitConc /\ [][NextConc]_vars

-----------------------------------------------------------------------------
(* Vocabulary of the properties: the frame stream the call has read.       *)

\* Frame k (1-based) of the stream: its time, label and confidence.
TimeOf(k) == FrameTime(k - 1, hop_length)
LabelOf(k) == FrameMatch[chroma[k]].chord
ConfOf(k) == FrameMatch[chroma[k]].score
Qualifies(k) == ConfOf(k) >= min_confidence

\* The call returned, and no collaborator failed.
Returned == pc = "done" /\ fault = None

\* The indices of the frames that qualify, in order.
QualifyingIndices == SelectSeq([k \in 1..Len(chroma) |-> k], Qualifies)

(* The (time, chord) pairs at which the label changes along a sequence of  *)
(* frame indices, the first index included.                                *)
RECURSIVE ChangesFrom(_, _, _)
ChangesFrom(idx, j, last) ==
  IF j > Len(idx) THEN << >>
  ELSE IF LabelOf(idx[j]) = last THEN ChangesFrom(idx, j + 1, last)
  ELSE << [time |-> TimeOf(idx[j]), chord |-> LabelOf(idx[j])] >>
       \o ChangesFrom(idx, j + 1, LabelOf(idx[j]))

Changes(idx) == ChangesFrom(idx, 1, None)

\* The (time, chord) pairs of a list of segments.
Starts(cs) == [j \in 1..Len(cs) |-> [time |-> cs[j].time, chord |-> cs[j].chord]]

-----------------------------------------------------------------------------
(* C1.  When a segment is active and a qualifying frame with another label *)
(* arrives, exactly one segment is appended: it starts at the active start *)
(* time, carries the active label, the confidence of the arriving frame    *)
(* (rounded to 3 places) and as duration the arriving frame's time minus   *)
(* the active start; the new active segment starts at the arriving frame's *)
(* time with its label.  The stream [0.0, 0.5, 1.0, 1.5] s of labels       *)
(* [C, C, G, G] whose confidences round to [0.9, 0.8, 0.85, 0.9], with a   *)
(* track of 2.0 s, returns [(0.0, C, 0.85, 1.0), (1.0, G, 0.9, 1.0)].      *)
C1_ExampleRun ==
  /\ Returned
  /\ frame_duration = 500 /\ duration = 44100
  /\ min_confidence = 3000
  /\ chroma = << FrameC90, FrameC80, FrameG85, FrameG90 >>

C1_ExampleOutput ==
  << [time |-> 0, chord |-> "C", confidence |-> 850, duration |-> 1000],
     [time |-> 22050, chord |-> "G", confidence |-> 900, duration |-> 1000] >>

C1_CloseOnChange ==
  /\ [][ ( /\ pc = "loop" /\ pc' = "loop" /\ i' = i + 1
           /\ prev_chord # None
           /\ FrameMatch[chroma'[i + 1]].score >= min_confidence
           /\ FrameMatch[chroma'[i + 1]].chord # prev_chord )
         => /\ chords' = Append(chords,
                            [time |-> chord_start_time,
                             chord |-> prev_chord,
                             confidence |->
                               Round3Conf(FrameMatch[chroma'[i + 1]].score),
                             duration |->
                               Round3Time(i * hop_length - chord_start_time)])
            /\ chord_start_time' = i * hop_length
            /\ prev_chord' = FrameMatch[chroma'[i + 1]].chord ]_vars
  /\ [](C1_ExampleRun => result.chords = C1_ExampleOutput)

C1_Witness == C1_ExampleRun /\ result.chords = C1_ExampleOutput

-----------------------------------------------------------------------------
(* C2.  A frame below min_confidence leaves the active label, the active   *)
(* start time and the emitted segments unchanged; and the labels and start *)
(* times of the returned segments are those of the label changes along the *)
(* qualifying frames alone, so below-threshold frames of any label, put    *)
(* anywhere between them, change neither the number of segments nor their  *)
(* labels nor their start times.                                           *)
C2_DroppedFrames ==
  /\ [][ ( /\ pc = "loop" /\ pc' = "loop" /\ i' = i + 1
           /\ FrameMatch[chroma'[i + 1]].score < min_confidence )
         => UNCHANGED << prev_chord, chord_start_time, chords >> ]_vars
  /\ [](Returned => Starts(result.chords) = Changes(QualifyingIndices))

\* A below-threshold frame of another label between two qualifying frames
\* of one label, and the whole stream is one segment.
C2_Witness ==
  /\ Returned
  /\ Len(result.chords) = 1
  /\ \E k \in 2..(Len(chroma) - 1) :
       /\ Qualifies(k - 1) /\ Qualifies(k + 1) /\ ~Qualifies(k)
       /\ LabelOf(k - 1) = LabelOf(k + 1)
       /\ LabelOf(k) \notin {LabelOf(k - 1), "N"}

-----------------------------------------------------------------------------
(* C3.  A run of N >= 1 consecutive qualifying frames with one label, the  *)
(* active label before it being another or none, produces exactly one      *)
(* segment, whatever N: it starts at the run's first frame and lasts until *)
(* the next qualifying frame with another label, or until the track        *)
(* duration when there is none.                                            *)
SetMax(S) == CHOOSE m \in S : \A k \in S : k <= m
SetMin(S) == CHOOSE m \in S : \A k \in S : m <= k

IsRun(a, b) ==
  \A k \in a..b : Qualifies(k) /\ LabelOf(k) = LabelOf(a)

StartsFresh(a) ==
  LET before == { k \in 1..(a - 1) : Qualifies(k) }
  IN before = {} \/ LabelOf(SetMax(before)) # LabelOf(a)

EndOfSegment(a) ==
  LET later == { k \in (a + 1)..Len(chroma) :
                   Qualifies(k) /\ LabelOf(k) # LabelOf(a) }
  IN IF later = {} THEN duration ELSE TimeOf(SetMin(later))

C3_OneSegmentPerRun ==
  Returned =>
    \A a \in 1..Len(chroma) : \A b \in a..Len(chroma) :
      (IsRun(a, b) /\ StartsFresh(a)) =>
        LET js == { j \in 1..Len(result.chords) :
                      \E k \in a..b : result.chords[j].time = TimeOf(k) }
        IN /\ Cardinality(js) = 1
           /\ \A j \in js :
                /\ result.chords[j].time = TimeOf(a)
                /\ result.chords[j].chord = LabelOf(a)
                /\ result.chords[j].duration =
                     Round3Time(EndOfSegment(a) - TimeOf(a))

\* Three or more qualifying frames of one label are the whole stream.
C3_Witness ==
  /\ Returned
  /\ Len(chroma) >= 3 /\ IsRun(1, Len(chroma))
  /\ Len(result.chords) = 1
  /\ result.chords[1].time = 0
  /\ result.chords[1].duration = Round3Time(duration)

-----------------------------------------------------------------------------
(* C4.  At the end of the stream one final segment is appended if and only *)
(* if a segment is active: it starts at the active start, carries the      *)
(* active label, lasts until the track duration, and its confidence is the *)
(* one computed for the last frame of the stream, whether that frame       *)
(* qualified or not.                                                       *)
C4_FinalSegment ==
  [][ (pc = "loop" /\ pc' = "done" /\ fault' = None)
      => /\ result'.success
         /\ result'.chords =
              IF prev_chord # None
              THEN Append(chords,
                          [time |-> chord_start_time,
                           chord |-> prev_chord,
                           confidence |-> Round3Conf(ConfOf(Len(chroma))),
                           duration |->
                             Round3Time(duration - chord_start_time)])
              ELSE chords ]_vars

\* The last frame did not qualify, and the final segment carries its confidence.
C4_Witness ==
  /\ Returned
  /\ Len(result.chords) >= 2
  /\ ~Qualifies(Len(chroma))
  /\ LET last == result.chords[Len(result.chords)]
     IN /\ last.confidence = Round3Conf(ConfOf(Len(chroma)))
        /\ \A k \in 1..Len(chroma) :
             Qualifies(k) => Round3Conf(ConfOf(k)) # last.confidence
        /\ last.time > 0

-----------------------------------------------------------------------------
(* C5.  The returned segments are in strictly ascending order of start     *)
(* time and contiguous: each segment's duration is the distance to the     *)
(* next segment's start (rounded to 3 places when it is recorded).         *)
C5_Contiguous ==
  Returned =>
    \A j \in 1..(Len(result.chords) - 1) :
      /\ result.chords[j].time < result.chords[j + 1].time
      /\ result.chords[j].duration =
           Round3Time(result.chords[j + 1].time - result.chords[j].time)

\* Three segments whose recorded durations are rounded.
C5_Witness ==
  /\ Returned
  /\ Len(result.chords) >= 3
  /\ hop_length = 5512
  /\ result.chords[2].time = 2 * 5512 /\ result.chords[2].duration = 250

-----------------------------------------------------------------------------
(* C6.  Every emitted segment has a duration strictly greater than 0 (the  *)
(* frame times of every stream here increase strictly and lie within       *)
(* [0, track duration]); stated for the detector and the frame duration    *)
(* app.py uses, the defaults.                                              *)
C6_PositiveDurations ==
  ( /\ Returned
    /\ min_confidence = DefaultMinConfidence
    /\ frame_duration = DefaultFrameDuration )
  => \A j \in 1..Len(result.chords) : result.chords[j].duration > 0

-----------------------------------------------------------------------------
(* C7.  When a step fails, at any point, the call does not raise: it       *)
(* returns success = false, the error, and an empty chords list, whatever  *)
(* segments were accumulated before the failure.                           *)
C7_FailureResult ==
  /\ pc # "raised"
  /\ (pc = "done" /\ fault # None)
       => result = [success |-> FALSE, error |-> fault, chords |-> << >>]

\* The failure came after two segments were accumulated.
C7_Witness ==
  /\ pc = "done" /\ fault # None
  /\ Len(chords) >= 2
  /\ ~result.success /\ result.chords = << >>

-----------------------------------------------------------------------------
(* C8.  An empty frame stream returns success = true, an empty chords list *)
(* and duration 0: no final segment is appended, and the confidence no     *)
(* frame bound is not read.                                                *)
C8_EmptyStream ==
  (Returned /\ n_frames = 0)
    => result = [success |-> TRUE, chords |-> << >>, duration |-> 0,
                 sample_rate |-> SR]

C8_Witness ==
  /\ Returned /\ n_frames = 0 /\ chroma = << >>
  /\ confidence = NoNumber
  /\ result.success /\ result.chords = << >> /\ result.duration = 0

-----------------------------------------------------------------------------
(* Vocabulary of the matcher's properties.                                 *)

\* The score of every template for a vector, in the template order.
Scores(cv) == [k \in 1..NumTemplates |-> Score(cv, TemplateArray(k))]

RECURSIVE MaxUpTo(_, _)
MaxUpTo(f, n) ==
  IF n = 1 THEN f[1]
  ELSE LET m == MaxUpTo(f, n - 1) IN IF f[n] > m THEN f[n] ELSE m

\* The templates that attain the highest of the scores sc.
Best(sc) ==
  LET mx == MaxUpTo(sc, NumTemplates)
  IN { k \in 1..NumTemplates : sc[k] = mx }

-----------------------------------------------------------------------------
(* C9, as claimed.  For every vector, the all-zero one included,           *)
(* _match_chord returns one of the 24 template names, never the no-chord   *)
(* value.                                                                  *)
C9_AlwaysTriad == pc = "matched" => best_chord \in TemplateNames

(* C9, amended.  _match_chord returns the highest score among the          *)
(* templates; its label is one of the 24 template names, one that scores   *)
(* it, exactly when that score is above 0, and otherwise, as for the       *)
(* all-zero vector, it is the no-chord value "N" with score 0.             *)
C9_TriadOrNoChord ==
  pc = "matched" =>
    LET sc == Scores(chroma_vector)
        mx == MaxUpTo(sc, NumTemplates)
    IN /\ best_score = mx
       /\ IF mx > 0
          THEN \E k \in 1..NumTemplates :
                 sc[k] = mx /\ best_chord = CHORD_TEMPLATES[k].name
          ELSE best_chord = "N" /\ best_score = 0

C9_Witness ==
  /\ pc = "matched"
  /\ chroma_vector.num = Silence
  /\ best_chord = "N" /\ best_score = 0

-----------------------------------------------------------------------------
-----------------------------------------------------------------------------
(* C11.  For each of the 24 templates, matching its own 0/1 profile, as    *)
(* line 99 of detect_chords normalises it, returns the template's name:    *)
(* its score is strictly greater than the score of every other template,   *)
(* so it alone attains the highest score and no tie is broken.             *)
C11_OwnProfileWins ==
  pc = "matched" =>
    \A k \in 1..NumTemplates :
      chroma_vector = Normalize(CHORD_TEMPLATES[k].profile) =>
        LET sc == Scores(chroma_vector)
        IN /\ best_chord = CHORD_TEMPLATES[k].name
           /\ best_score = sc[k]
           /\ \A j \in 1..NumTemplates : j # k => sc[j] < sc[k]
           /\ Best(sc) = {k}

\* The normalised profile of Am is matched: Am, and no other template ties.
C11_Witness ==
  /\ pc = "matched"
  /\ chroma_vector = Normalize(CHORD_TEMPLATES[22].profile)
  /\ chroma_vector.den = 3
  /\ best_chord = "Am" /\ best_score = ScoreScale - 1
  /\ Best(Scores(chroma_vector)) = {22}

-----------------------------------------------------------------------------
(* Vocabulary of C12: the entries a root stands for.                      *)
MajorTriads ==
  [r \in 0..(NumPitchClasses - 1) |->
     [name |-> MajorName(r), profile |-> TriadProfile(r, 4)]]

MinorTriads ==
  [r \in 0..(NumPitchClasses - 1) |->
     [name |-> MinorName(r), profile |-> TriadProfile(r, 3)]]

(* C12.  CHORD_TEMPLATES has exactly 24 entries, with pairwise distinct    *)
(* names and pairwise distinct profiles: for every root r in 0..11 one     *)
(* entry named for the major chord on r, whose profile is 1 exactly on     *)
(* r, r + 4 and r + 7 (mod 12), and one named for the minor chord on r,    *)
(* whose profile is 1 exactly on r, r + 3 and r + 7 (mod 12).  This is    *)
(* the table a call of _match_chord sets out to iterate.                   *)
C12_TemplateTable ==
  (pc = "match" /\ tk = 0) =>
    LET table  == CHORD_TEMPLATES
        majors == MajorTriads
        minors == MinorTriads
    IN /\ Len(table) = 2 * NumPitchClasses
       /\ Len(table) = 24
       /\ \A j, k \in 1..Len(table) :
            j # k => /\ table[j].name # table[k].name
                     /\ table[j].profile # table[k].profile
       /\ \A r \in 0..(NumPitchClasses - 1) :
            /\ \E k \in 1..Len(table) : table[k] = majors[r]
            /\ \E k \in 1..Len(table) : table[k] = minors[r]

(* The matcher has iterated the whole table over the minor triad on A      *)
(* (root 9: A, C, E) and answers with the name of the minor entry for A;   *)
(* over the major triad on A it answers with the major entry's.            *)
C12_Witness ==
  /\ pc = "matched" /\ tk = 24
  /\ chroma_vector = Raw(TriadProfile(9, 3))
  /\ best_chord = MinorName(9) /\ best_chord = "Am"
  /\ match_chord(Raw(TriadProfile(9, 4))).chord = "A"
  /\ TriadProfile(9, 3) = <<1,0,0,0,1,0,0,0,0,1,0,0>>

-----------------------------------------------------------------------------
(* Vocabulary of C13: detect_chords run alone over a frame stream xs, on a *)
(* track of duration dur, with the threshold minc.                         *)
RECURSIVE LoopAlone(_, _, _, _)
LoopAlone(st, xs, k, minc) ==
  IF k > Len(xs) THEN st
  ELSE LoopAlone(LoopBody(st, FrameTime(k - 1, ConcHop), FrameMatch[xs[k]], minc),
                 xs, k + 1, minc)

LocalsAlone(xs, minc) ==
  LoopAlone([BlankLocals EXCEPT !.chords = << >>, !.prev_chord = None,
                                !.chord_start_time = 0],
            xs, 1, minc)

ResultAlone(xs, dur, minc) ==
  LET st == LocalsAlone(xs, minc)
  IN IF FinalActive(st)
     THEN IF st.confidence = NoNumber
          THEN FailureResult("UnboundLocalError", st.chords)
          ELSE SuccessResult(FinalChords(st, dur), dur)
     ELSE SuccessResult(st.chords, dur)

(* C13.  Calls of detect_chords on the one shared instance, in any         *)
(* sequence or interleaving, are independent: a step of one call changes   *)
(* neither the position nor the active label, active start time and        *)
(* emitted list of another call; while a call is in its loop its locals    *)
(* are those of the call run alone over the frames it has read so far; and *)
(* the result a call returns is the result of the call run alone on its    *)
(* own frame stream and track duration with the instance's min_confidence. *)
C13_IndependentCalls ==
  /\ [][ \A c, d \in Calls :
           (c # d /\ call'[c] # call[c])
             => call'[d] = call[d] /\ call_locals'[d] = call_locals[d] ]_vars
  /\ [](\A c \in Calls :
          /\ call[c].pc = "loop"
               => call_locals[c] = LocalsAlone(call[c].chroma, min_confidence)
          /\ (call[c].pc = "done" /\ call[c].fault = None)
               => call[c].result = ResultAlone(call[c].chroma, call[c].duration,
                                               min_confidence))

(* Call 1 has returned two segments, C then G, while call 2 is inside its  *)
(* loop with G as its active label since its first frame.                  *)
C13_Witness ==
  /\ pc = "serve"
  /\ call[1].pc = "done" /\ call[1].fault = None
  /\ call[1].chroma = << FrameC90, FrameG85 >>
  /\ Len(call[1].result.chords) = 2
  /\ call[1].result.chords[1].chord = "C"
  /\ call[1].result.chords[2].chord = "G"
  /\ call[2].pc = "loop" /\ call[2].i = 1 /\ call[2].n_frames = 2
  /\ call_locals[2].prev_chord = "G" /\ call_locals[2].chord_start_time = 0
  /\ call_locals[2].chords = << >>

-----------------------------------------------------------------------------
(* C14.  For any frame stream and any min_confidence the detector is built *)
(* with, no returned segment carries the no-chord label "N": a frame       *)
(* without a chord is left out of the segments, never emitted as one.      *)
C14_NoSentinelSegments ==
  Returned => \A j \in 1..Len(result.chords) : result.chords[j].chord # "N"

-----------------------------------------------------------------------------
(* C15.  In every returned list, two consecutive segments have different   *)
(* labels, and the number of segments is 0 when no frame qualifies and     *)
(* otherwise 1 plus the number of places, along the qualifying frames      *)
(* (confidence >= min_confidence), where the label differs from that of    *)
(* the qualifying frame before.                                            *)
C15_SegmentCount ==
  Returned =>
    LET q  == QualifyingIndices
        cs == result.chords
    IN /\ \A j \in 1..(Len(cs) - 1) : cs[j].chord # cs[j + 1].chord
       /\ Len(cs) =
            IF Len(q) = 0 THEN 0
            ELSE 1 + Cardinality({ j \in 2..Len(q) :
                                     LabelOf(q[j]) # LabelOf(q[j - 1]) })

(* Four frames, three of them qualifying, two labels: the frame that does  *)
(* not qualify lies between two qualifying frames of one label, and the    *)
(* label changes once, so there are two segments.                          *)
C15_Witness ==
  /\ Returned
  /\ Len(chroma) = 4 /\ Len(QualifyingIndices) = 3
  /\ ~Qualifies(2) /\ LabelOf(2) # LabelOf(1) /\ LabelOf(1) = LabelOf(3)
  /\ LabelOf(4) # LabelOf(3)
  /\ Len(result.chords) = 2
  /\ result.chords[1].chord = LabelOf(1) /\ result.chords[2].chord = LabelOf(4)

=============================================================================
